---- MODULE Spec2Model ----
(***************************************************************************)
(* GroundDriveController (flight/modules/PathFollower): lifecycle, the     *)
(* per-period control cycle and its use of the North-East cascade          *)
(* controller (controlNE), the settings store and the path status object.  *)
(*                                                                         *)
(* Floats are modelled by integers.  UpdatePeriod is kept a multiple of    *)
(* 1000 so that dT = UpdatePeriod / 1000.0f is exact.                      *)
(***************************************************************************)
EXTENDS Integers, Sequences, FiniteSets, TLC

(* ------------------------------ bounds -------------------------------- *)

\* Largest value the externally owned path_time field may hold at start-up.
MaxPathTime == 1
\* Largest coordinate of the positions the state estimator reports.
MaxPos == 1
\* Largest speed component the state estimator reports.
MaxVel == 1

(* --------------------------- value domains ---------------------------- *)

Modes == {0, 1}

Vec2Zero == <<0, 0>>
Vec3Zero == <<0, 0, 0>>

\* Contents of a GroundPathFollowerSettingsData object.
MkSettings(period, posP, kp, ki, velMax, tmin, tmax, vff, cff) ==
    [UpdatePeriod        |-> period,
     HorizontalPosP      |-> posP,
     SpeedPI             |-> [Kp |-> kp, Ki |-> ki, Kd |-> 0, Beta |-> 0],
     HorizontalVelMax    |-> velMax,
     ThrustLimit         |-> [Min |-> tmin, Max |-> tmax],
     VelocityFeedForward |-> vff,
     CourseFeedForward   |-> cff]

SettingsA == MkSettings(1000, 1, 1, 1, 1, -2, 2, 0, 1)
SettingsB == MkSettings(2000, 1, 1, 0, 1, 1, 2, 1, 0)

SettingsValues == {SettingsA, SettingsB}

\* What a read through a null settings pointer finds at address 0 when the
\* read does not fault: bytes that are no settings at all.
SettingsAtZero == MkSettings(1000, 0, 0, 0, 0, 0, 0, 0, 0)

PositionValues == {Vec3Zero, <<MaxPos, 0, MaxPos>>}
VelocityValues == {Vec3Zero, <<MaxVel, -MaxVel, MaxVel>>}

\* PathDesired objects: a proper segment and a zero-length path.
PathValues ==
    {[Mode |-> 0, Start |-> Vec3Zero, End |-> <<2, 1, 0>>],
     [Mode |-> 1, Start |-> <<1, 1, 0>>, End |-> <<1, 1, 0>>]}

(* ------------------------------ maths --------------------------------- *)

Abs(x) == IF x < 0 THEN -x ELSE x

Sgn(x) == IF x < 0 THEN -1 ELSE IF x > 0 THEN 1 ELSE 0

\* boundf(val, min, max)
boundf(val, lo, hi) == IF val < lo THEN lo ELSE IF val > hi THEN hi ELSE val

squaref(x) == x * x

\* sqrtf, rounded to the nearest point of the model's integer grid
sqrtf(n) ==
    CHOOSE r \in 0..n :
        /\ 4 * n < (2 * r + 1) * (2 * r + 1)
        /\ (r = 0 \/ (2 * r - 1) * (2 * r - 1) <= 4 * n)

RECURSIVE Gcd(_, _)
Gcd(a, b) == IF b = 0 THEN a ELSE Gcd(b, a % b)

\* atan(a / b) in degrees, rounded, for a, b >= 0 not both zero, on the
\* reduced ratio; ratios beyond the table fall into the nearest octant.
AtanDegQ1(a, b) ==
    LET g == Gcd(a, b)
        p == a \div g
        q == b \div g
    IN  CASE p = 0          -> 0
          [] q = 0          -> 90
          [] p = q          -> 45
          [] p = 1 /\ q = 2 -> 27
          [] p = 2 /\ q = 1 -> 63
          [] p = 1 /\ q = 3 -> 18
          [] p = 3 /\ q = 1 -> 72
          [] p = 1 /\ q = 4 -> 14
          [] p = 4 /\ q = 1 -> 76
          [] p = 2 /\ q = 3 -> 34
          [] p = 3 /\ q = 2 -> 56
          [] p = 3 /\ q = 4 -> 37
          [] p = 4 /\ q = 3 -> 53
          [] OTHER          -> IF p < q THEN 22 ELSE 68

\* RAD2DEG(atan2f(y, x))
atan2Deg(y, x) ==
    IF x = 0 /\ y = 0 THEN 0
    ELSE IF x >= 0 THEN Sgn(y) * AtanDegQ1(Abs(y), x)
    ELSE IF y = 0 THEN 180
    ELSE Sgn(y) * (180 - AtanDegQ1(Abs(y), -x))


(* ---------------- path-geometry engine (paths.c) ---------------------- *)

\* A zero-length path: the engine cannot derive a direction from it.
Degenerate(path) == path.Start = path.End

\* path_progress(pathDesired, cur, &progress, false)
path_progress(path, cur) ==
    LET corr == [i \in 1..3 |-> boundf(path.End[i] - cur[i], -2, 2)]
        err  == Abs(path.End[1] - cur[1]) + Abs(path.End[2] - cur[2])
    IN  [error               |-> err,
         fractional_progress |-> IF err = 0 THEN 1 ELSE 0,
         path_vector         |-> [i \in 1..3 |-> Sgn(path.End[i] - path.Start[i])],
         correction_vector   |-> corr]

(* ------------- North-East cascade controller (PIDControlNE) ----------- *)

\* PIDControlNE::PIDControlNE(): disarmed, integrator and command zeroed,
\* every parameter zero.
NEConstructed ==
    [armed |-> FALSE, integ |-> Vec2Zero, cmd |-> Vec2Zero, current |-> FALSE,
     velState |-> Vec2Zero, velDesired |-> Vec2Zero,
     posP |-> 0, Kp |-> 0, Ki |-> 0, Kd |-> 0, Beta |-> 0, dT |-> 0,
     velMax |-> 0, minCmd |-> 0, maxCmd |-> 0, FF |-> 0]

\* controlNE.Activate(): zero the integrator and the cached command, arm.
NEActivate(ne) ==
    [ne EXCEPT !.integ = Vec2Zero, !.cmd = Vec2Zero, !.current = FALSE,
               !.armed = TRUE]

\* controlNE.Deactivate(): zero the same state, disarm.
NEDeactivate(ne) ==
    [ne EXCEPT !.integ = Vec2Zero, !.cmd = Vec2Zero, !.current = FALSE,
               !.armed = FALSE]

UpdatePositionalParameters(ne, gain) == [ne EXCEPT !.posP = gain]

UpdateParameters(ne, kp, ki, kd, beta, dT, velMax) ==
    [ne EXCEPT !.Kp = kp, !.Ki = ki, !.Kd = kd, !.Beta = beta, !.dT = dT,
               !.velMax = velMax]

UpdateCommandParameters(ne, minCommand, maxCommand, velocityFeedforward) ==
    [ne EXCEPT !.minCmd = minCommand, !.maxCmd = maxCommand,
               !.FF = velocityFeedforward]

UpdateVelocityState(ne, north, east) ==
    [ne EXCEPT !.velState = <<north, east>>, !.current = FALSE]

\* Outer stage: correction scaled by the position gain, clamped to velMax.
ControlPositionWithPath(ne, progress) ==
    [ne EXCEPT !.velDesired =
                   <<boundf(ne.posP * progress.correction_vector[1], -ne.velMax, ne.velMax),
                     boundf(ne.posP * progress.correction_vector[2], -ne.velMax, ne.velMax)>>,
               !.current = FALSE]

GetVelocityDesired(ne) == ne.velDesired

\* Inner stage on one axis: PI law plus feed-forward, clamped to the command
\* range; the integrator pauses while the output saturates.  (Kd is 0 in
\* every settings value of the model, so the derivative term vanishes.)
InnerRaw(ne, i) ==
    ne.Kp * (ne.velDesired[i] - ne.velState[i]) + ne.integ[i] + ne.FF

InnerOut(ne, i) == boundf(InnerRaw(ne, i), ne.minCmd, ne.maxCmd)

InnerInteg(ne, i) ==
    IF InnerRaw(ne, i) = InnerOut(ne, i)
    THEN ne.integ[i] + ne.Ki * (ne.velDesired[i] - ne.velState[i]) * ne.dT
    ELSE ne.integ[i]

\* controlNE.GetNECommand(): runs the inner stage unless the cached command
\* is current; the command is then in .cmd.
GetNECommand(ne) ==
    IF ne.current THEN ne
    ELSE [ne EXCEPT !.cmd = <<InnerOut(ne, 1), InnerOut(ne, 2)>>,
                    !.integ = <<InnerInteg(ne, 1), InnerInteg(ne, 2)>>,
                    !.current = TRUE]


\* The parameters controlNE holds.
Params(ne) ==
    [posP |-> ne.posP, Kp |-> ne.Kp, Ki |-> ne.Ki, Kd |-> ne.Kd,
     Beta |-> ne.Beta, dT |-> ne.dT, velMax |-> ne.velMax,
     minCmd |-> ne.minCmd, maxCmd |-> ne.maxCmd, FF |-> ne.FF]

(* ------------------------- GroundDriveController ---------------------- *)

VARIABLES
    groundSettings,   \* the settings pointer: "null" or "settings"
    store,            \* contents of the externally owned settings object
    mActive,          \* lifecycle flag
    mMode,            \* path mode recorded at activation
    controlNE,        \* the cascade controller
    pathStatus,       \* the externally owned path status structure
    pathStatusObj,    \* what PathStatusSet last published
    pathDesired,      \* the externally owned path definition
    velocityDesired,  \* what VelocityDesiredSet last published
    stabDesired,      \* what StabilizationDesiredSet last published
    alarm,            \* SYSTEMALARMS_ALARM_GUIDANCE
    halted,           \* the firmware stopped (failed assertion or fault)
    pc,               \* position of the control cycle in UpdateAutoPilot
    frame,            \* locals of the running cycle
    op,               \* the call that made the last step
    wasActive,        \* mActive when that call was made
    cycle,            \* what the last cycle read and computed
    derived           \* the settings values passed to the last SettingsUpdated

ctrlVars == <<groundSettings, mActive, mMode, controlNE, pathStatus>>
outVars == <<pathStatusObj, velocityDesired, stabDesired, alarm>>
envVars == <<store, pathDesired>>
cycVars == <<pc, frame>>

vars == <<groundSettings, store, mActive, mMode, controlNE, pathStatus,
          pathStatusObj, pathDesired, velocityDesired, stabDesired, alarm, halted, pc, frame, op,
          wasActive, cycle, derived>>

PathStatusZero(t) ==
    [path_time |-> t, Status |-> "INPROGRESS", error |-> 0,
     fractional_progress |-> 0, path_direction |-> Vec3Zero,
     correction_direction |-> Vec3Zero]

StabZero ==
    [Roll |-> 0, Pitch |-> 0, Yaw |-> 0, Thrust |-> 0]

NoFrame == [kFF |-> 0, result |-> 0]

\* The calls updatePathVelocity() makes, in the order of its statements.
updatePathVelocityCalls ==
    <<"PositionStateGet", "VelocityStateGet", "UpdateVelocityState",
      "path_progress", "ControlPositionWithPath", "GetVelocityDesired",
      "VelocityDesiredSet">>

\* The calls updateGroundDesiredAttitude() makes.
updateGroundDesiredAttitudeCalls == <<"GetNECommand", "StabilizationDesiredSet">>

\* The calls of the tail of UpdateAutoPilot().
ReportCalls == <<"AlarmsSet", "PathStatusSet">>

NoCycle ==
    [pos |-> Vec3Zero, vel |-> Vec3Zero,
     cur |-> Vec3Zero, progress |-> path_progress(CHOOSE p \in PathValues : TRUE, Vec3Zero),
     neCommand |-> Vec2Zero, kFF |-> 0, thrustMin |-> 0, thrustMax |-> 0,
     neStart |-> Params(NEConstructed), neAttitude |-> Params(NEConstructed),
     kFFStart |-> 0, thrustMinStart |-> 0, thrustMaxStart |-> 0,
     result |-> 0, fault |-> FALSE, active |-> FALSE, path_time0 |-> 0,
     refCur |-> Vec3Zero, refStab |-> StabZero,
     integ0 |-> Vec2Zero, calls |-> <<>>]

\* GroundDriveController::GroundDriveController(): groundSettings(0),
\* mActive(false); mMode is left uninitialised.  The objects the controller
\* points to are owned elsewhere and hold whatever their owner put there.
Init ==
    /\ groundSettings = "null"
    /\ store \in SettingsValues
    /\ mActive = FALSE
    /\ mMode \in Modes
    /\ controlNE = NEConstructed
    /\ pathStatus \in {PathStatusZero(t) : t \in 0..MaxPathTime}
    /\ pathStatusObj = PathStatusZero(0)
    /\ pathDesired \in PathValues
    /\ velocityDesired = Vec3Zero
    /\ stabDesired = StabZero
    /\ alarm = "UNINITIALISED"
    /\ halted = FALSE
    /\ pc = "idle"
    /\ frame = NoFrame
    /\ op = "Construct"
    /\ wasActive = FALSE
    /\ cycle = NoCycle
    /\ derived = {}

\* What *groundSettings yields: the settings object, or, through the null
\* pointer the constructor leaves, whatever lies at address 0.
Deref == IF groundSettings = "null" THEN {SettingsAtZero} ELSE {store}

\* A read through the null pointer may also fault and stop the firmware.
Fault ==
    /\ groundSettings = "null"
    /\ halted' = TRUE

\* The record of the last cycle is kept only until the next call.
ForgetCycle == cycle' = IF pc = "idle" THEN NoCycle ELSE cycle

\* resetGlobals() that forgets to clear path_time
resetGlobalsKeep(ps) == ps

\* resetGlobals()
resetGlobals(ps) == [ps EXCEPT !.path_time = 0]

\* SettingsUpdated() that re-initialises the loops while it re-parameterises
SettingsUpdatedNEReset(ne, gs) ==
    LET dT == gs.UpdatePeriod \div 1000
        ne1 == UpdatePositionalParameters(ne, gs.HorizontalPosP)
        ne2 == UpdateParameters(ne1, gs.SpeedPI.Kp, gs.SpeedPI.Ki, gs.SpeedPI.Kd,
                                gs.SpeedPI.Beta, dT, gs.HorizontalVelMax)
        ne3 == UpdateCommandParameters(ne2, gs.ThrustLimit.Min, gs.ThrustLimit.Max,
                                       gs.VelocityFeedForward)
    IN  [ne3 EXCEPT !.integ = Vec2Zero, !.cmd = Vec2Zero]

\* The effect of SettingsUpdated() on controlNE, reading settings gs.
SettingsUpdatedNE(ne, gs) ==
    LET dT == gs.UpdatePeriod \div 1000
        ne1 == UpdatePositionalParameters(ne, gs.HorizontalPosP)
        ne2 == UpdateParameters(ne1, gs.SpeedPI.Kp, gs.SpeedPI.Ki, gs.SpeedPI.Kd,
                                gs.SpeedPI.Beta, dT, gs.HorizontalVelMax)
    IN  UpdateCommandParameters(ne2, gs.ThrustLimit.Min, gs.ThrustLimit.Max,
                                gs.VelocityFeedForward)

\* Initialize(ptr_groundSettings)
Initialize ==
    /\ wasActive' = mActive
    /\ ForgetCycle
    /\ ~halted /\ pc = "idle"
    /\ \E ptr \in {"null", "settings"} :
          IF ptr = "null"
          THEN \* PIOS_Assert(ptr_groundSettings) fails
               /\ halted' = TRUE
               /\ UNCHANGED <<groundSettings, pathStatus>>
          ELSE /\ groundSettings' = ptr
               /\ pathStatus' = resetGlobals(pathStatus)
               /\ UNCHANGED halted
    /\ op' = "Initialize"
    /\ UNCHANGED <<mActive, mMode, controlNE, derived>>
    /\ UNCHANGED <<outVars, envVars, cycVars>>

\* Activate() without its test of mActive
ActivateAlways ==
    /\ wasActive' = mActive
    /\ ForgetCycle
    /\ ~halted /\ pc = "idle"
    /\ op' = "Activate"
    /\ \/ \E gs \in Deref :
            /\ mActive' = TRUE
            /\ controlNE' = NEActivate(SettingsUpdatedNE(controlNE, gs))
            /\ pathStatus' = resetGlobals(pathStatus)
            /\ mMode' = pathDesired.Mode
            /\ derived' = {gs}
            /\ UNCHANGED halted
       \/ /\ Fault
          /\ mActive' = TRUE
          /\ UNCHANGED <<mMode, controlNE, pathStatus, derived>>
    /\ UNCHANGED <<groundSettings, outVars, envVars, cycVars>>

\* Activate() that records the path mode on every call
ActivateRemode ==
    /\ wasActive' = mActive
    /\ ForgetCycle
    /\ ~halted /\ pc = "idle"
    /\ op' = "Activate"
    /\ IF mActive
       THEN /\ mMode' = pathDesired.Mode
            /\ UNCHANGED <<mActive, controlNE, pathStatus, derived, halted>>
       ELSE \/ \E gs \in Deref :
                 /\ mActive' = TRUE
                 /\ controlNE' = NEActivate(SettingsUpdatedNE(controlNE, gs))
                 /\ pathStatus' = resetGlobals(pathStatus)
                 /\ mMode' = pathDesired.Mode
                 /\ derived' = {gs}
                 /\ UNCHANGED halted
            \/ /\ Fault
               /\ mActive' = TRUE
               /\ UNCHANGED <<mMode, controlNE, pathStatus, derived>>
    /\ UNCHANGED <<groundSettings, outVars, envVars, cycVars>>

\* Activate() without its call of controlNE.Activate()
ActivateUnarmed ==
    /\ wasActive' = mActive
    /\ ForgetCycle
    /\ ~halted /\ pc = "idle"
    /\ op' = "Activate"
    /\ IF mActive
       THEN UNCHANGED <<mActive, mMode, controlNE, pathStatus, derived, halted>>
       ELSE \/ \E gs \in Deref :
                 /\ mActive' = TRUE
                 /\ controlNE' = SettingsUpdatedNE(controlNE, gs)
                 /\ pathStatus' = resetGlobals(pathStatus)
                 /\ mMode' = pathDesired.Mode
                 /\ derived' = {gs}
                 /\ UNCHANGED halted
            \/ /\ Fault
               /\ mActive' = TRUE
               /\ UNCHANGED <<mMode, controlNE, pathStatus, derived>>
    /\ UNCHANGED <<groundSettings, outVars, envVars, cycVars>>

\* Activate()
Activate ==
    /\ wasActive' = mActive
    /\ ForgetCycle
    /\ ~halted /\ pc = "idle"
    /\ op' = "Activate"
    /\ IF mActive
       THEN UNCHANGED <<mActive, mMode, controlNE, pathStatus, derived, halted>>
       ELSE \/ \E gs \in Deref :
                 /\ mActive' = TRUE
                 /\ controlNE' = NEActivate(SettingsUpdatedNE(controlNE, gs))
                 /\ pathStatus' = resetGlobals(pathStatus)
                 /\ mMode' = pathDesired.Mode
                 /\ derived' = {gs}
                 /\ UNCHANGED halted
            \/ \* mActive is already set when SettingsUpdated() faults
               /\ Fault
               /\ mActive' = TRUE
               /\ UNCHANGED <<mMode, controlNE, pathStatus, derived>>
    /\ UNCHANGED <<groundSettings, outVars, envVars, cycVars>>

\* Deactivate() that leaves controlNE armed and loaded
DeactivateLeavesArmed ==
    /\ wasActive' = mActive
    /\ ForgetCycle
    /\ ~halted /\ pc = "idle"
    /\ op' = "Deactivate"
    /\ IF mActive
       THEN /\ mActive' = FALSE
            /\ pathStatus' = resetGlobals(pathStatus)
            /\ UNCHANGED controlNE
       ELSE UNCHANGED <<mActive, pathStatus, controlNE>>
    /\ UNCHANGED <<groundSettings, mMode, derived, halted>>
    /\ UNCHANGED <<outVars, envVars, cycVars>>

\* Deactivate()
Deactivate ==
    /\ wasActive' = mActive
    /\ ForgetCycle
    /\ ~halted /\ pc = "idle"
    /\ op' = "Deactivate"
    /\ IF mActive
       THEN /\ mActive' = FALSE
            /\ pathStatus' = resetGlobals(pathStatus)
            /\ controlNE' = NEDeactivate(controlNE)
       ELSE UNCHANGED <<mActive, pathStatus, controlNE>>
    /\ UNCHANGED <<groundSettings, mMode, derived, halted>>
    /\ UNCHANGED <<outVars, envVars, cycVars>>

\* SettingsUpdated()
SettingsUpdated ==
    /\ wasActive' = mActive
    /\ ForgetCycle
    /\ ~halted
    /\ op' = "SettingsUpdated"
    /\ \/ \E gs \in Deref :
             /\ controlNE' = SettingsUpdatedNE(controlNE, gs)
             /\ derived' = {gs}
             /\ UNCHANGED halted
       \/ /\ Fault
          /\ UNCHANGED <<controlNE, derived>>
    /\ UNCHANGED <<groundSettings, mActive, mMode, pathStatus>>
    /\ UNCHANGED <<outVars, envVars, cycVars>>


(* ---------------------------- the control cycle ----------------------- *)

\* The look-ahead that projects North and East only
LookAheadNE(pos, vel, kFF) ==
    [i \in 1..3 |-> IF i = 3 THEN pos[i] ELSE pos[i] + vel[i] * kFF]

\* The look-ahead position of updatePathVelocity(kFF)
LookAhead(pos, vel, kFF) == [i \in 1..3 |-> pos[i] + vel[i] * kFF]

\* updatePathVelocity(kFF): the new controlNE, the position handed to the
\* engine, the engine's answer and the VelocityDesired it publishes.
updatePathVelocity(ne, kFF, pos, vel, path) ==
    LET ne1      == UpdateVelocityState(ne, vel[1], vel[2])
        cur      == LookAhead(pos, vel, kFF)
        progress == path_progress(path, cur)
        ne2      == ControlPositionWithPath(ne1, progress)
        vd       == GetVelocityDesired(ne2)
    IN  [ne |-> ne2, cur |-> cur, progress |-> progress,
         velocityDesired |-> <<vd[1], vd[2], 0>>]

\* The pathStatus fields updatePathVelocity copies from the engine's answer.
StatusWithProgress(ps, progress) ==
    [ps EXCEPT !.error = progress.error,
               !.fractional_progress = progress.fractional_progress,
               !.path_direction = progress.path_vector,
               !.correction_direction = progress.correction_vector]

\* The mapping without the boundf() on the speed command
MapCommandUnclamped(north, east, lim) ==
    [Roll   |-> 0,
     Pitch  |-> 0,
     Yaw    |-> atan2Deg(east, north),
     Thrust |-> sqrtf(squaref(north) + squaref(east))]

\* Course and throttle of updateGroundDesiredAttitude for the command
\* (north, east) under the thrust limits lim.
MapCommand(north, east, lim) ==
    [Roll   |-> 0,
     Pitch  |-> 0,
     Yaw    |-> atan2Deg(east, north),
     Thrust |-> boundf(sqrtf(squaref(north) + squaref(east)), lim.Min, lim.Max)]

\* updateGroundDesiredAttitude(): the new controlNE, the command fetched,
\* the StabilizationDesired it publishes and its return value.
updateGroundDesiredAttitude(ne, lim) ==
    LET ne1 == GetNECommand(ne)
    IN  [ne |-> ne1, cmd |-> ne1.cmd,
         stab |-> MapCommand(ne1.cmd[1], ne1.cmd[2], lim),
         result |-> 1]

\* The tail of UpdateAutoPilot(): status and alarm for the cycle's result.
StatusForResult(ps, result) ==
    IF result # 0 THEN ps ELSE [ps EXCEPT !.Status = "CRITICAL"]

\* The alarm with the two branches of UpdateAutoPilot() exchanged
AlarmInverted(result) == IF result # 0 THEN "WARNING" ELSE "OK"

AlarmForResult(result) == IF result # 0 THEN "OK" ELSE "WARNING"

\* What the cycle would publish with the settings object holding the values
\* of the last SettingsUpdated() (gs itself when there was none).
RefSettings(gs) == IF derived = {} THEN gs ELSE CHOOSE d \in derived : TRUE

\* UpdateAutoPilot(), the whole cycle
UpdateAutoPilot ==
    /\ wasActive' = mActive
    /\ ~halted /\ pc = "idle"
    /\ op' = "RunCycle"
    /\ \/ \E gs \in Deref, positionState \in PositionValues,
             velocityState \in VelocityValues :
            \E pv \in {updatePathVelocity(controlNE, gs.CourseFeedForward,
                                          positionState, velocityState, pathDesired)},
               rpv \in {updatePathVelocity(controlNE, RefSettings(gs).CourseFeedForward,
                                           positionState, velocityState, pathDesired)} :
            \E da \in {updateGroundDesiredAttitude(pv.ne, gs.ThrustLimit)},
               rda \in {updateGroundDesiredAttitude(rpv.ne, RefSettings(gs).ThrustLimit)} :
            LET ps == StatusForResult(StatusWithProgress(pathStatus, pv.progress),
                                      da.result)
            IN  /\ controlNE' = da.ne
                /\ pathStatus' = ps
                /\ pathStatusObj' = ps
                /\ velocityDesired' = pv.velocityDesired
                /\ stabDesired' = da.stab
                /\ alarm' = AlarmForResult(da.result)
                /\ cycle' = [pos |-> positionState, vel |-> velocityState,
                             cur |-> pv.cur, progress |-> pv.progress,
                             neCommand |-> da.cmd,
                             kFF |-> gs.CourseFeedForward,
                             thrustMin |-> gs.ThrustLimit.Min,
                             thrustMax |-> gs.ThrustLimit.Max,
                             kFFStart |-> gs.CourseFeedForward,
                             thrustMinStart |-> gs.ThrustLimit.Min,
                             thrustMaxStart |-> gs.ThrustLimit.Max,
                             neStart |-> Params(controlNE),
                             neAttitude |-> Params(pv.ne),
                             result |-> da.result,
                             fault |-> Degenerate(pathDesired),
                             active |-> mActive,
                             path_time0 |-> pathStatus.path_time,
                             refCur |-> rpv.cur, refStab |-> rda.stab,
                             integ0 |-> controlNE.integ,
                             calls |-> updatePathVelocityCalls
                                       \o updateGroundDesiredAttitudeCalls
                                       \o ReportCalls]
                /\ UNCHANGED halted
       \/ /\ Fault
          /\ UNCHANGED <<controlNE, pathStatus, outVars, cycle>>
    /\ UNCHANGED <<groundSettings, mActive, mMode, derived, cycVars, envVars>>

(* ----------------------------- environment ---------------------------- *)

\* The settings store gets new values (no notification yet).
SettingsChange ==
    /\ wasActive' = mActive
    /\ ForgetCycle
    /\ ~halted
    /\ \E gs \in SettingsValues \ {store} : store' = gs
    /\ op' = "Env"
    /\ UNCHANGED <<ctrlVars, outVars, cycVars, pathDesired, halted, derived>>

\* The path planner replaces the path definition between cycles.
ObjectiveChange ==
    /\ wasActive' = mActive
    /\ ForgetCycle
    /\ ~halted /\ pc = "idle"
    /\ \E p \in PathValues \ {pathDesired} : pathDesired' = p
    /\ op' = "Env"
    /\ UNCHANGED <<ctrlVars, outVars, cycVars, store, halted, derived>>

(* ------------- the cycle, step by step (asynchronous settings) -------- *)

\* UpdateAutoPilot() is entered: updateAutoPilotGround() evaluates the
\* argument groundSettings->CourseFeedForward.
CycleStart ==
    /\ ~halted /\ pc = "idle"
    /\ op' = "CycleStep"
    /\ wasActive' = mActive
    /\ \/ \E gs \in Deref :
            /\ pc' = "velocity"
            /\ frame' = [kFF |-> gs.CourseFeedForward, result |-> 0]
            /\ cycle' = [NoCycle EXCEPT !.kFF = gs.CourseFeedForward,
                                        !.kFFStart = gs.CourseFeedForward,
                                        !.thrustMinStart = gs.ThrustLimit.Min,
                                        !.thrustMaxStart = gs.ThrustLimit.Max,
                                        !.neStart = Params(controlNE),
                                        !.active = mActive,
                                        !.path_time0 = pathStatus.path_time,
                                        !.integ0 = controlNE.integ]
            /\ UNCHANGED halted
       \/ /\ Fault
          /\ UNCHANGED <<pc, frame, cycle>>
    /\ UNCHANGED <<ctrlVars, outVars, envVars, derived>>

\* updatePathVelocity(kFF) runs.
CyclePathVelocity ==
    /\ ~halted /\ pc = "velocity"
    /\ op' = "CycleStep"
    /\ \E positionState \in PositionValues, velocityState \in VelocityValues :
       \E pv \in {updatePathVelocity(controlNE, frame.kFF, positionState,
                                     velocityState, pathDesired)} :
          /\ controlNE' = pv.ne
          /\ pathStatus' = StatusWithProgress(pathStatus, pv.progress)
          /\ velocityDesired' = pv.velocityDesired
          /\ cycle' = [cycle EXCEPT !.pos = positionState, !.vel = velocityState,
                                    !.cur = pv.cur, !.progress = pv.progress,
                                    !.fault = Degenerate(pathDesired),
                                    !.calls = updatePathVelocityCalls]
    /\ pc' = "attitude"
    /\ UNCHANGED <<groundSettings, mActive, mMode, pathStatusObj, stabDesired,
                   alarm, envVars, halted, frame, wasActive, derived>>

\* updateGroundDesiredAttitude() runs.
CycleAttitude ==
    /\ ~halted /\ pc = "attitude"
    /\ op' = "CycleStep"
    /\ \/ \E gs \in Deref :
          \E da \in {updateGroundDesiredAttitude(controlNE, gs.ThrustLimit)} :
            /\ controlNE' = da.ne
            /\ stabDesired' = da.stab
            /\ frame' = [frame EXCEPT !.result = da.result]
            /\ cycle' = [cycle EXCEPT !.neCommand = da.cmd,
                                      !.thrustMin = gs.ThrustLimit.Min,
                                      !.thrustMax = gs.ThrustLimit.Max,
                                      !.neAttitude = Params(controlNE),
                                      !.result = da.result,
                                      !.refCur = cycle.cur,
                                      !.refStab = da.stab,
                                      !.calls = cycle.calls
                                                \o updateGroundDesiredAttitudeCalls]
            /\ pc' = "report"
            /\ UNCHANGED halted
       \/ /\ Fault
          /\ UNCHANGED <<controlNE, stabDesired, frame, cycle, pc>>
    /\ UNCHANGED <<groundSettings, mActive, mMode, pathStatus, pathStatusObj,
                   velocityDesired, alarm, envVars, wasActive, derived>>

\* The tail of UpdateAutoPilot(): alarm, then PathStatusSet.
CycleReport ==
    /\ ~halted /\ pc = "report"
    /\ op' = "RunCycle"
    /\ alarm' = AlarmForResult(frame.result)
    /\ pathStatus' = StatusForResult(pathStatus, frame.result)
    /\ pathStatusObj' = pathStatus'
    /\ pc' = "idle"
    /\ frame' = NoFrame
    /\ cycle' = [cycle EXCEPT !.calls = cycle.calls \o ReportCalls]
    /\ UNCHANGED <<groundSettings, mActive, mMode, controlNE, velocityDesired,
                   stabDesired, envVars, halted, wasActive, derived>>

Next ==
    \/ Initialize
    \/ Activate
    \/ Deactivate
    \/ SettingsUpdated
    \/ UpdateAutoPilot
    \/ SettingsChange
    \/ ObjectiveChange

Spec == Init /\ [][Next]_vars


NextAsync ==
    \/ Initialize
    \/ Activate
    \/ Deactivate
    \/ SettingsUpdated
    \/ CycleStart
    \/ CyclePathVelocity
    \/ CycleAttitude
    \/ CycleReport
    \/ SettingsChange
    \/ ObjectiveChange

\* The control cycle in steps, with the settings notification path free to
\* run between any two of them.
SpecAsync == Init /\ [][NextAsync]_vars


(* ------- every call statement by statement (single-thread schedule) --- *)

\* The locals of a cycle in progress.
StepFrame(kFF) ==
    [kFF |-> kFF, result |-> 0, pos |-> Vec3Zero, vel |-> Vec3Zero,
     cur |-> Vec3Zero,
     progress |-> path_progress(CHOOSE p \in PathValues : TRUE, Vec3Zero)]

\* Activate(), line 77-78: the test of mActive and mActive = true.
ActivateEnter ==
    /\ ~halted /\ pc = "idle"
    /\ wasActive' = mActive
    /\ ForgetCycle
    /\ IF mActive
       THEN /\ op' = "Activate"
            /\ UNCHANGED <<mActive, pc>>
       ELSE /\ op' = "ActivateStep"
            /\ mActive' = TRUE
            /\ pc' = "a_settings"
    /\ UNCHANGED <<groundSettings, mMode, controlNE, pathStatus, outVars,
                   envVars, halted, frame, derived>>

\* Activate(), line 79: SettingsUpdated().
ActivateSettings ==
    /\ ~halted /\ pc = "a_settings"
    /\ op' = "ActivateStep"
    /\ \/ \E gs \in Deref :
            /\ controlNE' = SettingsUpdatedNE(controlNE, gs)
            /\ derived' = {gs}
            /\ pc' = "a_cascade"
            /\ UNCHANGED halted
       \/ /\ Fault
          /\ UNCHANGED <<controlNE, derived, pc>>
    /\ UNCHANGED <<groundSettings, mActive, mMode, pathStatus, outVars,
                   envVars, frame, wasActive, cycle>>

\* Activate(), line 80: controlNE.Activate().
ActivateCascade ==
    /\ ~halted /\ pc = "a_cascade"
    /\ op' = "ActivateStep"
    /\ controlNE' = NEActivate(controlNE)
    /\ pc' = "a_reset"
    /\ UNCHANGED <<groundSettings, mActive, mMode, pathStatus, outVars,
                   envVars, halted, frame, wasActive, cycle, derived>>

\* Activate(), line 81: resetGlobals().
ActivateReset ==
    /\ ~halted /\ pc = "a_reset"
    /\ op' = "ActivateStep"
    /\ pathStatus' = resetGlobals(pathStatus)
    /\ pc' = "a_mode"
    /\ UNCHANGED <<groundSettings, mActive, mMode, controlNE, outVars,
                   envVars, halted, frame, wasActive, cycle, derived>>

\* Activate(), line 82: mMode = pathDesired->Mode, and the return.
ActivateMode ==
    /\ ~halted /\ pc = "a_mode"
    /\ op' = "Activate"
    /\ mMode' = pathDesired.Mode
    /\ pc' = "idle"
    /\ UNCHANGED <<groundSettings, mActive, controlNE, pathStatus, outVars,
                   envVars, halted, frame, wasActive, cycle, derived>>

\* UpdateAutoPilot() is entered; updateAutoPilotGround() evaluates
\* groundSettings->CourseFeedForward (line 170).
StepEnter ==
    /\ ~halted /\ pc = "idle"
    /\ op' = "CycleStep"
    /\ wasActive' = mActive
    /\ \/ \E gs \in Deref :
            /\ pc' = "s_state"
            /\ frame' = StepFrame(gs.CourseFeedForward)
            /\ cycle' = [NoCycle EXCEPT !.kFF = gs.CourseFeedForward,
                                        !.kFFStart = gs.CourseFeedForward,
                                        !.thrustMinStart = gs.ThrustLimit.Min,
                                        !.thrustMaxStart = gs.ThrustLimit.Max,
                                        !.neStart = Params(controlNE),
                                        !.active = mActive,
                                        !.path_time0 = pathStatus.path_time,
                                        !.integ0 = controlNE.integ]
            /\ UNCHANGED halted
       \/ /\ Fault
          /\ UNCHANGED <<pc, frame, cycle>>
    /\ UNCHANGED <<ctrlVars, outVars, envVars, derived>>

\* updatePathVelocity(), lines 179-185: the state estimate is copied and
\* the velocity is pushed into controlNE.
StepVelocityState ==
    /\ ~halted /\ pc = "s_state"
    /\ op' = "CycleStep"
    /\ \E positionState \in PositionValues, velocityState \in VelocityValues :
          /\ controlNE' = UpdateVelocityState(controlNE, velocityState[1],
                                              velocityState[2])
          /\ frame' = [frame EXCEPT !.pos = positionState, !.vel = velocityState]
          /\ cycle' = [cycle EXCEPT !.pos = positionState, !.vel = velocityState,
                                    !.calls = cycle.calls
                                        \o <<"PositionStateGet", "VelocityStateGet",
                                             "UpdateVelocityState">>]
    /\ pc' = "s_progress"
    /\ UNCHANGED <<groundSettings, mActive, mMode, pathStatus, outVars,
                   envVars, halted, wasActive, derived>>

\* updatePathVelocity(), lines 187-192: the look-ahead position and the
\* query of the path-geometry engine.
StepProgress ==
    /\ ~halted /\ pc = "s_progress"
    /\ op' = "CycleStep"
    /\ \E cur \in {LookAhead(frame.pos, frame.vel, frame.kFF)} :
       \E progress \in {path_progress(pathDesired, cur)} :
          /\ frame' = [frame EXCEPT !.cur = cur, !.progress = progress]
          /\ cycle' = [cycle EXCEPT !.cur = cur, !.progress = progress,
                                    !.fault = Degenerate(pathDesired),
                                    !.calls = cycle.calls \o <<"path_progress">>]
    /\ pc' = "s_outer"
    /\ UNCHANGED <<ctrlVars, outVars, envVars, halted, wasActive, derived>>

\* The outer stage run on what the previous cycle left in pathStatus
StepOuterStale ==
    /\ ~halted /\ pc = "s_outer"
    /\ op' = "CycleStep"
    /\ \E ne \in {ControlPositionWithPath(controlNE,
                      [frame.progress EXCEPT
                          !.correction_vector = pathStatus.correction_direction])} :
       \E vd \in {GetVelocityDesired(ne)} :
          /\ controlNE' = ne
          /\ pathStatus' = StatusWithProgress(pathStatus, frame.progress)
          /\ velocityDesired' = <<vd[1], vd[2], 0>>
    /\ cycle' = [cycle EXCEPT !.calls = cycle.calls
                                  \o <<"ControlPositionWithPath",
                                       "GetVelocityDesired", "VelocityDesiredSet">>]
    /\ pc' = "s_command"
    /\ UNCHANGED <<groundSettings, mActive, mMode, pathStatusObj, stabDesired,
                   alarm, envVars, halted, frame, wasActive, derived>>

\* updatePathVelocity(), lines 194-235: the outer stage on this cycle's
\* progress, the desired velocity, the pathStatus fields, VelocityDesiredSet.
StepOuter ==
    /\ ~halted /\ pc = "s_outer"
    /\ op' = "CycleStep"
    /\ \E ne \in {ControlPositionWithPath(controlNE, frame.progress)} :
       \E vd \in {GetVelocityDesired(ne)} :
          /\ controlNE' = ne
          /\ pathStatus' = StatusWithProgress(pathStatus, frame.progress)
          /\ velocityDesired' = <<vd[1], vd[2], 0>>
    /\ cycle' = [cycle EXCEPT !.calls = cycle.calls
                                  \o <<"ControlPositionWithPath",
                                       "GetVelocityDesired", "VelocityDesiredSet">>]
    /\ pc' = "s_command"
    /\ UNCHANGED <<groundSettings, mActive, mMode, pathStatusObj, stabDesired,
                   alarm, envVars, halted, frame, wasActive, derived>>

\* updateGroundDesiredAttitude(), lines 243-264.
StepCommand ==
    /\ ~halted /\ pc = "s_command"
    /\ op' = "CycleStep"
    /\ \/ \E gs \in Deref :
          \E da \in {updateGroundDesiredAttitude(controlNE, gs.ThrustLimit)} :
            /\ controlNE' = da.ne
            /\ stabDesired' = da.stab
            /\ frame' = [frame EXCEPT !.result = da.result]
            /\ cycle' = [cycle EXCEPT !.neCommand = da.cmd,
                                      !.thrustMin = gs.ThrustLimit.Min,
                                      !.thrustMax = gs.ThrustLimit.Max,
                                      !.neAttitude = Params(controlNE),
                                      !.result = da.result,
                                      !.refCur = cycle.cur,
                                      !.refStab = da.stab,
                                      !.calls = cycle.calls
                                                \o updateGroundDesiredAttitudeCalls]
            /\ pc' = "s_alarm"
            /\ UNCHANGED halted
       \/ /\ Fault
          /\ UNCHANGED <<controlNE, stabDesired, frame, cycle, pc>>
    /\ UNCHANGED <<groundSettings, mActive, mMode, pathStatus, pathStatusObj,
                   velocityDesired, alarm, envVars, wasActive, derived>>

\* UpdateAutoPilot(), lines 152-157: the alarm for the result.
StepAlarm ==
    /\ ~halted /\ pc = "s_alarm"
    /\ op' = "CycleStep"
    /\ alarm' = AlarmForResult(frame.result)
    /\ pathStatus' = StatusForResult(pathStatus, frame.result)
    /\ cycle' = [cycle EXCEPT !.calls = cycle.calls \o <<"AlarmsSet">>]
    /\ pc' = "s_publish"
    /\ UNCHANGED <<groundSettings, mActive, mMode, controlNE, pathStatusObj,
                   velocityDesired, stabDesired, envVars, halted, frame,
                   wasActive, derived>>

\* UpdateAutoPilot(), line 159: PathStatusSet(pathStatus), and the return.
StepPublish ==
    /\ ~halted /\ pc = "s_publish"
    /\ op' = "RunCycle"
    /\ pathStatusObj' = pathStatus
    /\ cycle' = [cycle EXCEPT !.calls = cycle.calls \o <<"PathStatusSet">>]
    /\ pc' = "idle"
    /\ frame' = NoFrame
    /\ UNCHANGED <<ctrlVars, velocityDesired, stabDesired, alarm, envVars,
                   halted, wasActive, derived>>

NextSteps ==
    \/ Initialize
    \/ ActivateEnter
    \/ ActivateSettings
    \/ ActivateCascade
    \/ ActivateReset
    \/ ActivateMode
    \/ Deactivate
    \/ (pc = "idle" /\ SettingsUpdated)
    \/ StepEnter
    \/ StepVelocityState
    \/ StepProgress
    \/ StepOuter
    \/ StepCommand
    \/ StepAlarm
    \/ StepPublish
    \/ (pc = "idle" /\ SettingsChange)
    \/ ObjectiveChange

\* Every call statement by statement, all calls made from the one thread
\* that runs the cycle.
SpecSteps == Init /\ [][NextSteps]_vars

(* ------------------------------- claims ------------------------------- *)

\* The last cycle ran to its end on an initialised controller whose cascade
\* parameters come from real settings.
NominalCycle ==
    /\ ~halted
    /\ groundSettings = "settings"
    /\ derived # {} /\ derived \subseteq SettingsValues
    /\ cycle.active

\* C1 -- Reset law: right after an Activate() made while Inactive (and run
\* to its end) the cascade integrator, the cached command and the path-time
\* accumulator are all zero.
ResetLaw ==
    (op = "Activate" /\ ~wasActive /\ ~halted) =>
        /\ mActive
        /\ controlNE.integ = Vec2Zero
        /\ controlNE.cmd = Vec2Zero
        /\ pathStatus.path_time = 0

\* C1 witness: a re-activation after cycles that had produced a command.
ResetLawReached ==
    /\ op = "Activate" /\ ~wasActive /\ ~halted /\ mActive
    /\ groundSettings = "settings"
    /\ alarm = "OK" /\ stabDesired.Thrust # 0
    /\ controlNE.integ = Vec2Zero /\ pathStatus.path_time = 0

\* C2 -- Activate() on an Active controller changes nothing of the
\* controller: flag, mode, cascade state and parameters, path time.
ActivateIdempotent ==
    [][(op' = "Activate" /\ mActive) =>
           UNCHANGED <<groundSettings, mActive, mMode, controlNE, pathStatus>>]_vars

\* C2 witness: Activate() was called on an Active controller whose
\* integrator was loaded, and the integrator is still loaded.
ActivateIdempotentReached ==
    /\ op = "Activate" /\ wasActive /\ mActive
    /\ controlNE.integ # Vec2Zero

\* C3 -- every successful cycle of an Active controller advances the
\* path-time accumulator by one cycle period.
PathTimeAdvances ==
    (op = "RunCycle" /\ NominalCycle /\ cycle.result # 0) =>
        pathStatus.path_time = cycle.path_time0 + controlNE.dT

\* C4 -- a cycle on a degenerate path returns a false health flag, raises
\* the warning alarm, publishes the zero command and leaves path time alone.
GeometryFaultHandled ==
    (op = "RunCycle" /\ NominalCycle /\ cycle.fault) =>
        /\ cycle.result = 0
        /\ alarm = "WARNING"
        /\ stabDesired = StabZero
        /\ pathStatus.path_time = cycle.path_time0

\* C5 -- the controller is Active only with settings supplied by a
\* successful Initialize().
ActiveOnlyInitialized == mActive => groundSettings # "null"

\* C6 -- a cycle publishes what it would publish if the settings object
\* still held the values of the last SettingsUpdated(): same look-ahead
\* position, same command output.
OnlyDerivedSettingsUsed ==
    (op = "RunCycle" /\ NominalCycle) =>
        /\ cycle.cur = cycle.refCur
        /\ stabDesired = cycle.refStab

\* The cascade parameters SettingsUpdated() derives from real settings.
DerivedParams == {Params(SettingsUpdatedNE(NEConstructed, gs)) : gs \in SettingsValues}

\* C7 -- with a settings change and its SettingsUpdated() falling inside a
\* cycle, every step of the cycle still uses the parameter values in force
\* when the cycle started: the look-ahead horizon, the cascade parameters
\* and the mapper's thrust limits.
CycleUsesStartSnapshot ==
    (pc = "report" /\ NominalCycle /\ derived = {store}
        /\ cycle.neStart \in DerivedParams) =>
        /\ cycle.kFF = cycle.kFFStart
        /\ cycle.thrustMin = cycle.thrustMinStart
        /\ cycle.thrustMax = cycle.thrustMaxStart
        /\ cycle.neAttitude = cycle.neStart

\* The magnitude of the last cycle's command vector.
CommandMagnitude ==
    sqrtf(cycle.neCommand[1] * cycle.neCommand[1]
          + cycle.neCommand[2] * cycle.neCommand[2])

\* C8 -- Saturation law: the published throttle is the command's magnitude
\* clamped to the thrust limits (the upper limit exactly when the magnitude
\* exceeds it), and the published course is the angle of the command.
SaturationLaw ==
    (op = "RunCycle" /\ ~halted /\ cycle.thrustMin <= cycle.thrustMax) =>
        /\ stabDesired.Thrust >= cycle.thrustMin
        /\ stabDesired.Thrust <= cycle.thrustMax
        /\ CommandMagnitude > cycle.thrustMax => stabDesired.Thrust = cycle.thrustMax
        /\ CommandMagnitude < cycle.thrustMin => stabDesired.Thrust = cycle.thrustMin
        /\ (cycle.thrustMin <= CommandMagnitude /\ CommandMagnitude <= cycle.thrustMax)
              => stabDesired.Thrust = CommandMagnitude
        /\ stabDesired.Yaw = atan2Deg(cycle.neCommand[2], cycle.neCommand[1])
        /\ stabDesired.Roll = 0 /\ stabDesired.Pitch = 0

\* C8 witness: a command longer than thrustMax, published at thrustMax, off
\* the North axis.
SaturationLawReached ==
    /\ op = "RunCycle" /\ ~halted
    /\ CommandMagnitude > cycle.thrustMax
    /\ stabDesired.Thrust = cycle.thrustMax
    /\ stabDesired.Yaw # 0

\* C9 -- SettingsUpdated() changes nothing but controlNE's parameters.
SettingsUpdatedFrame ==
    [][(op' = "SettingsUpdated") =>
           /\ UNCHANGED <<groundSettings, mActive, mMode, pathStatus>>
           /\ controlNE'.integ = controlNE.integ
           /\ controlNE'.cmd = controlNE.cmd
           /\ controlNE'.armed = controlNE.armed
           /\ controlNE'.velState = controlNE.velState
           /\ controlNE'.velDesired = controlNE.velDesired]_vars

\* C9 witness: SettingsUpdated() ran on an Active controller with a loaded
\* integrator and new parameters.
SettingsUpdatedFrameReached ==
    /\ op = "SettingsUpdated" /\ ~halted /\ mActive
    /\ controlNE.integ # Vec2Zero
    /\ controlNE.Ki = 0

\* C10 -- Deactivate() changes nothing when Inactive; when Active it zeroes
\* path time, zeroes and disarms the cascade controller and ends Inactive.
DeactivateFrame ==
    [][(op' = "Deactivate") =>
           IF mActive
           THEN /\ ~mActive'
                /\ pathStatus'.path_time = 0
                /\ ~controlNE'.armed
                /\ controlNE'.integ = Vec2Zero
                /\ controlNE'.cmd = Vec2Zero
           ELSE UNCHANGED <<ctrlVars, outVars, envVars, halted, derived>>]_vars

\* C10 witness: Deactivate() took an Active controller to Inactive.
DeactivateFrameReached ==
    /\ op = "Deactivate" /\ wasActive /\ ~mActive
    /\ ~controlNE.armed /\ pathStatus.path_time = 0
    /\ alarm = "OK"

\* C11 -- no cycle reaches the cascade controller's control operations
\* while it is disarmed: a cycle that ran to its end ran on an armed
\* controlNE (the control operations leave .armed alone).
CascadeOnlyWhenArmed ==
    (op = "RunCycle" /\ ~halted /\ groundSettings = "settings") =>
        controlNE.armed

\* C12 -- Mode() is the path mode held by the path definition at the last
\* Inactive-to-Active transition: an Activate() that activates records
\* pathDesired->Mode, and no other call (a no-op Activate(), Deactivate(),
\* SettingsUpdated(), a cycle, a change of the path definition) changes the
\* recorded mode.
ModeRecordedAtActivation ==
    [][/\ (op' = "Activate" /\ ~mActive /\ ~halted') => mMode' = pathDesired.Mode
       /\ ~(op' = "Activate" /\ ~mActive) => mMode' = mMode]_vars

\* C12 witness: a cycle ran on an Active controller after the path
\* definition got another mode, and Mode() is still the recorded one.
ModeRecordedAtActivationReached ==
    /\ op = "RunCycle" /\ wasActive /\ mActive /\ ~halted
    /\ groundSettings = "settings"
    /\ mMode # pathDesired.Mode

\* How often the last cycle made the call, and where in its sequence.
CallCount(name) ==
    Cardinality({i \in DOMAIN cycle.calls : cycle.calls[i] = name})

CallIndex(name) == CHOOSE i \in DOMAIN cycle.calls : cycle.calls[i] = name

\* C13 -- a cycle sets the guidance alarm once, OK exactly when its health
\* flag is true, WARNING with the status marked CRITICAL exactly when it is
\* false, and publishes the path status once, after the alarm is set.
AlarmThenStatusOnce ==
    (op = "RunCycle" /\ ~halted) =>
        /\ CallCount("AlarmsSet") = 1
        /\ CallCount("PathStatusSet") = 1
        /\ CallIndex("AlarmsSet") < CallIndex("PathStatusSet")
        /\ (alarm = "OK") <=> (cycle.result # 0)
        /\ (alarm = "WARNING" /\ pathStatusObj.Status = "CRITICAL")
               <=> (cycle.result = 0)
        /\ pathStatusObj = pathStatus

\* C13 witness: a cycle of an Active controller ended healthy, with the OK
\* alarm and its own path error published.
AlarmThenStatusOnceReached ==
    /\ op = "RunCycle" /\ ~halted /\ cycle.active
    /\ groundSettings = "settings"
    /\ cycle.result # 0 /\ alarm = "OK"
    /\ pathStatusObj.error = cycle.progress.error /\ pathStatusObj.error # 0

\* C14 -- Activate() sets the active flag as its last step: in no state,
\* intermediate ones included, is the controller Active while the cascade
\* controller is not yet reset and armed or the path time is not yet zero.
ActiveOnlyWhenReady ==
    (mActive /\ ~halted /\ groundSettings = "settings") =>
        /\ controlNE.armed
        /\ pathStatus.path_time = 0

\* The command the inner stage gives for what controlNE holds after the
\* last cycle, started from the integrator the cycle found.
CycleCommand ==
    GetNECommand([controlNE EXCEPT !.integ = cycle.integ0, !.current = FALSE]).cmd

\* C15 -- the steps of a cycle come in one order: velocity into the cascade
\* controller, one query of the path engine at the look-ahead position, the
\* outer stage on that answer, the command fetched, mapped and published,
\* and the path status last; command and status are those of this cycle's
\* velocity and this cycle's answer of the engine.
CycleOrder ==
    (op = "RunCycle" /\ ~halted) =>
        /\ CallCount("path_progress") = 1
        /\ CallIndex("UpdateVelocityState") < CallIndex("path_progress")
        /\ CallIndex("path_progress") < CallIndex("ControlPositionWithPath")
        /\ CallIndex("ControlPositionWithPath") < CallIndex("GetNECommand")
        /\ CallIndex("GetNECommand") < CallIndex("StabilizationDesiredSet")
        /\ CallIndex("StabilizationDesiredSet") < CallIndex("PathStatusSet")
        /\ cycle.progress = path_progress(pathDesired, cycle.cur)
        /\ controlNE.velState = <<cycle.vel[1], cycle.vel[2]>>
        /\ controlNE.velDesired
               = ControlPositionWithPath(controlNE, cycle.progress).velDesired
        /\ cycle.neCommand = CycleCommand
        /\ stabDesired = MapCommand(CycleCommand[1], CycleCommand[2],
                                    [Min |-> cycle.thrustMin, Max |-> cycle.thrustMax])
        /\ pathStatusObj.error = cycle.progress.error
        /\ pathStatusObj.fractional_progress = cycle.progress.fractional_progress
        /\ pathStatusObj.path_direction = cycle.progress.path_vector
        /\ pathStatusObj.correction_direction = cycle.progress.correction_vector

\* C15 witness: a cycle of an Active controller that found the integrator
\* loaded by earlier cycles, read a moving vehicle and published a command.
CycleOrderReached ==
    /\ op = "RunCycle" /\ ~halted /\ cycle.active
    /\ groundSettings = "settings"
    /\ cycle.integ0 # Vec2Zero
    /\ cycle.vel # Vec3Zero
    /\ stabDesired.Thrust # 0
    /\ Len(cycle.calls) = 11

\* C16 -- the position handed to the path engine is p + v * kFF on North,
\* East and Down, with kFF the CourseFeedForward setting; the cycle only
\* reads the position and velocity states, it never sets them.
LookAheadLaw ==
    (op = "RunCycle" /\ ~halted) =>
        /\ cycle.cur[1] = cycle.pos[1] + cycle.vel[1] * cycle.kFF
        /\ cycle.cur[2] = cycle.pos[2] + cycle.vel[2] * cycle.kFF
        /\ cycle.cur[3] = cycle.pos[3] + cycle.vel[3] * cycle.kFF
        /\ groundSettings = "settings" => cycle.kFF = store.CourseFeedForward
        /\ cycle.progress = path_progress(pathDesired, cycle.cur)
        /\ CallCount("PositionStateGet") = 1 /\ CallCount("VelocityStateGet") = 1
        /\ CallCount("PositionStateSet") = 0 /\ CallCount("VelocityStateSet") = 0

\* C16 witness: a cycle with a non-zero horizon read a vehicle away from
\* the origin and moving on all three axes.
LookAheadLawReached ==
    /\ op = "RunCycle" /\ ~halted
    /\ groundSettings = "settings"
    /\ cycle.kFF # 0
    /\ cycle.pos # Vec3Zero
    /\ \A i \in 1..3 : cycle.vel[i] # 0 /\ cycle.cur[i] # cycle.pos[i]

\* C17 -- after any sequence of calls that ran to their end the active flag
\* is true exactly when the cascade controller is armed: controlNE is armed
\* and disarmed only by the calls that change the flag, so its Activate()
\* and Deactivate() alternate.
LifecycleCascadeAgreement ==
    /\ [](~halted => (mActive <=> controlNE.armed))
    /\ [][~halted' =>
            /\ (controlNE'.armed # controlNE.armed) =>
                   /\ mActive' # mActive
                   /\ op' \in {"Activate", "Deactivate"}
            /\ (op' \in {"Activate", "Deactivate"} /\ mActive' = mActive) =>
                   controlNE' = controlNE]_vars

\* C17 witness: Deactivate() took a controller that had run cycles from
\* Active and armed to Inactive and disarmed.
LifecycleCascadeAgreementReached ==
    /\ op = "Deactivate" /\ wasActive /\ ~mActive /\ ~controlNE.armed
    /\ ~halted /\ groundSettings = "settings"
    /\ stabDesired.Thrust # 0

====
